---- MODULE Spec2Model ----
(***************************************************************************)
(* The SOCKS4/SOCKS5 request header codec of header.go: Parse, which reads *)
(* a header from a byte stream, Header.Bytes, which writes it back, and    *)
(* AddrSpec.Address, which renders the dial string.  Bytes are the         *)
(* integers 0..255 and a string is the sequence of its bytes.              *)
(***************************************************************************)
EXTENDS Integers, Sequences, FiniteSets, TLC

VARIABLES stream, pos, pc, hd, err, tmp, nreads, b, encoded, dial, rendered

vars == <<stream, pos, pc, hd, err, tmp, nreads, b, encoded, dial, rendered>>

(* ---------------- constants of header.go ---------------- *)
socks4Version == 4
socks5Version == 5
ConnectCommand == 1
BindCommand == 2
AssociateCommand == 3
ipv4Address == 1
fqdnAddress == 3
ipv6Address == 4
headVERLen == 1
headCMDLen == 1
headRSVLen == 1
headATYPLen == 1
headPORTLen == 2
IPv4len == 4
IPv6len == 16
ByteMax == 255

(* ---------------- bounds of the model ---------------- *)
MaxTail == 1
MaxSmallDomain == 2

Byte == 0..ByteMax

Max(x, y) == IF x > y THEN x ELSE y
Min(x, y) == IF x < y THEN x ELSE y

(* s[from..to] as Go's s[from-1:to] *)
Slice(s, from, to) == [i \in 1..Max(0, to - from + 1) |-> s[from + i - 1]]

Fill(n, c) == [i \in 1..n |-> c]

(* ---------------- errors ---------------- *)
(* an error value: the format string, its %d argument and its %v cause *)
nil == [fmt |-> "", num |-> 0, cause |-> ""]
EOF == "EOF"
ErrUnexpectedEOF == "unexpected EOF"

Errorf(f, n, c) == [fmt |-> f, num |-> n, cause |-> c]

unrecognizedAddrType == Errorf("Unrecognized address type", 0, "")

(* ---------------- the standard library, as header.go uses it ---------- *)
(* io.ReadFull(r, buf) with len(buf) = n >= 1 on the stream at offset p:   *)
(* the bytes read, how many, and EOF for none / ErrUnexpectedEOF for some  *)
ReadFull(s, p, n) ==
    LET avail == Len(s) - p
        got == Min(avail, n)
    IN  [data |-> Slice(s, p + 1, p + got),
         n    |-> got,
         err  |-> IF got = n THEN "" ELSE IF got = 0 THEN EOF ELSE ErrUnexpectedEOF]

RECURSIVE Itoa(_)
Itoa(n) ==
    IF n < 0 THEN <<45>> \o Itoa(-n)
    ELSE IF n < 10 THEN <<48 + n>>
    ELSE Itoa(n \div 10) \o <<48 + (n % 10)>>

HexDigit(d) == IF d < 10 THEN 48 + d ELSE 87 + d

RECURSIVE Hex(_)
Hex(n) == IF n < 16 THEN <<HexDigit(n)>> ELSE Hex(n \div 16) \o <<HexDigit(n % 16)>>

v4InV6Prefix == Fill(10, 0) \o <<255, 255>>

To4(ip) ==
    IF Len(ip) = IPv4len THEN ip
    ELSE IF Len(ip) = IPv6len /\ Slice(ip, 1, 12) = v4InV6Prefix THEN Slice(ip, 13, 16)
    ELSE <<>>

To16(ip) ==
    IF Len(ip) = IPv4len THEN v4InV6Prefix \o ip
    ELSE IF Len(ip) = IPv6len THEN ip
    ELSE <<>>

Dotted(p4) == Itoa(p4[1]) \o <<46>> \o Itoa(p4[2]) \o <<46>> \o Itoa(p4[3]) \o <<46>> \o Itoa(p4[4])

Groups(ip) == [i \in 1..8 |-> ip[2 * i - 1] * 256 + ip[2 * i]]

(* the number of zero groups from group j on *)
RECURSIVE ZeroRun(_, _)
ZeroRun(g, j) == IF j > 8 \/ g[j] # 0 THEN 0 ELSE 1 + ZeroRun(g, j + 1)

(* the first longest run of two or more zero groups, 0 when there is none *)
LongestZeroRun(g) ==
    LET best == CHOOSE j \in 1..8 :
                   /\ \A k \in 1..8 : ZeroRun(g, k) <= ZeroRun(g, j)
                   /\ \A k \in 1..(j - 1) : ZeroRun(g, k) < ZeroRun(g, j)
    IN  IF ZeroRun(g, best) >= 2 THEN best ELSE 0

RECURSIVE V6From(_, _, _, _)
V6From(g, i, e0, e1) ==
    IF i > 8 THEN <<>>
    ELSE IF i = e0
         THEN <<58, 58>> \o (IF e1 > 8 THEN <<>> ELSE Hex(g[e1]) \o V6From(g, e1 + 1, e0, e1))
         ELSE (IF i > 1 THEN <<58>> ELSE <<>>) \o Hex(g[i]) \o V6From(g, i + 1, e0, e1)

V6String(ip) ==
    LET g == Groups(ip)
        e0 == LongestZeroRun(g)
        e1 == IF e0 = 0 THEN 0 ELSE e0 + ZeroRun(g, e0)
    IN  V6From(g, 1, e0, e1)

(* net.IP.String; "<nil>" for no address, "?" for a wrong length *)
IPString(ip) ==
    IF Len(ip) = 0 THEN <<60, 110, 105, 108, 62>>
    ELSE IF Len(ip) # IPv4len /\ Len(ip) # IPv6len THEN <<63>>
    ELSE IF Len(To4(ip)) = IPv4len THEN Dotted(To4(ip))
    ELSE V6String(ip)

(* net.JoinHostPort: the host in brackets when it holds ':' or '%' *)
JoinHostPort(host, port) ==
    IF \E i \in 1..Len(host) : host[i] \in {58, 37}
    THEN <<91>> \o host \o <<93, 58>> \o port
    ELSE host \o <<58>> \o port

(* ---------------- header.go ---------------- *)
ZeroAddrSpec == [FQDN |-> <<>>, IP |-> <<>>, Port |-> 0]
ZeroHeader == [Version |-> 0, Command |-> 0, Reserved |-> 0,
               Address |-> ZeroAddrSpec, addrType |-> 0]

(* buildPort shifting the high byte by 16 bits *)
buildPort_Shift16(hi, lo) == hi * 65536 + lo

buildPort(hi, lo) == hi * 256 + lo

(* breakPort with the two bytes in the wrong order *)
breakPort_Swapped(port) == <<port % 256, (port \div 256) % 256>>

breakPort(port) == <<(port \div 256) % 256, port % 256>>

(* Address with the test for an IP inverted *)
Address_Inverted(a) ==
    IF Len(a.IP) = 0
    THEN JoinHostPort(IPString(a.IP), Itoa(a.Port))
    ELSE JoinHostPort(a.FQDN, Itoa(a.Port))

Address(a) ==
    IF Len(a.IP) # 0
    THEN JoinHostPort(IPString(a.IP), Itoa(a.Port))
    ELSE JoinHostPort(a.FQDN, Itoa(a.Port))

(* Bytes writing the IP for an address type it does not know *)
Bytes_UnknownTypeWritesIP(h) ==
    LET p == breakPort(h.Address.Port)
        head == <<h.Version, h.Command>>
    IN  IF h.Version = socks4Version
        THEN head \o p \o h.Address.IP
        ELSE IF h.Version = socks5Version
        THEN head \o <<h.Reserved, h.addrType>>
             \o (IF h.addrType = fqdnAddress
                 THEN <<Len(h.Address.FQDN) % 256>> \o h.Address.FQDN
                 ELSE IF h.addrType = ipv4Address THEN To4(h.Address.IP)
                 ELSE To16(h.Address.IP))
             \o p
        ELSE head

Bytes(h) ==
    LET p == breakPort(h.Address.Port)
        head == <<h.Version, h.Command>>
    IN  IF h.Version = socks4Version
        THEN head \o p \o h.Address.IP
        ELSE IF h.Version = socks5Version
        THEN head \o <<h.Reserved, h.addrType>>
             \o (IF h.addrType = fqdnAddress
                 THEN <<Len(h.Address.FQDN) % 256>> \o h.Address.FQDN
                 ELSE IF h.addrType = ipv4Address THEN To4(h.Address.IP)
                 ELSE IF h.addrType = ipv6Address THEN To16(h.Address.IP)
                 ELSE <<>>)
             \o p
        ELSE head

(* make([]byte, n) filled by a read that got r.data *)
Buffer(r, n) == r.data \o Fill(n - r.n, 0)

(* ParseVerCmd checking the command before the version *)
ParseVerCmd_CommandFirst ==
    /\ pc = "start"
    /\ LET n == headVERLen + headCMDLen
           r == ReadFull(stream, pos, n)
           h == [hd EXCEPT !.Version = r.data[1], !.Command = r.data[2]]
       IN  /\ pos' = pos + r.n
           /\ nreads' = nreads + 1
           /\ tmp' = Buffer(r, n)
           /\ IF r.err # ""
              THEN /\ err' = Errorf("failed to get header version and command, %v", 0, r.err)
                   /\ hd' = hd
                   /\ pc' = "failed"
              ELSE /\ hd' = h
                   /\ IF /\ h.Command # ConnectCommand
                         /\ h.Command # BindCommand
                         /\ h.Command # AssociateCommand
                      THEN /\ err' = Errorf("unrecognized command[%d]", h.Command, "")
                           /\ pc' = "failed"
                      ELSE IF h.Version # socks5Version /\ h.Version # socks4Version
                      THEN /\ err' = Errorf("unrecognized SOCKS version[%d]", h.Version, "")
                           /\ pc' = "failed"
                      ELSE IF h.Version = socks4Version /\ h.Command = AssociateCommand
                      THEN /\ err' = Errorf("wrong version for command", 0, "")
                           /\ pc' = "failed"
                      ELSE /\ err' = nil
                           /\ pc' = IF h.Version = socks4Version THEN "socks4" ELSE "socks5"
    /\ UNCHANGED <<stream, b, encoded, dial, rendered>>

(* lines 95-110: the first read and the three checks of version and command *)
ParseVerCmd ==
    /\ pc = "start"
    /\ LET n == headVERLen + headCMDLen
           r == ReadFull(stream, pos, n)
           h == [hd EXCEPT !.Version = r.data[1], !.Command = r.data[2]]
       IN  /\ pos' = pos + r.n
           /\ nreads' = nreads + 1
           /\ tmp' = Buffer(r, n)
           /\ IF r.err # ""
              THEN /\ err' = Errorf("failed to get header version and command, %v", 0, r.err)
                   /\ hd' = hd
                   /\ pc' = "failed"
              ELSE /\ hd' = h
                   /\ IF h.Version # socks5Version /\ h.Version # socks4Version
                      THEN /\ err' = Errorf("unrecognized SOCKS version[%d]", h.Version, "")
                           /\ pc' = "failed"
                      ELSE IF /\ h.Command # ConnectCommand
                              /\ h.Command # BindCommand
                              /\ h.Command # AssociateCommand
                      THEN /\ err' = Errorf("unrecognized command[%d]", h.Command, "")
                           /\ pc' = "failed"
                      ELSE IF h.Version = socks4Version /\ h.Command = AssociateCommand
                      THEN /\ err' = Errorf("wrong version for command", 0, "")
                           /\ pc' = "failed"
                      ELSE /\ err' = nil
                           /\ pc' = IF h.Version = socks4Version THEN "socks4" ELSE "socks5"
    /\ UNCHANGED <<stream, b, encoded, dial, rendered>>

(* ParseSocks4 taking a short read for a full one *)
ParseSocks4_IgnoreShort ==
    /\ pc = "socks4"
    /\ LET n == headPORTLen + IPv4len
           r == ReadFull(stream, pos, n)
           buf == Buffer(r, n)
       IN  /\ pos' = pos + r.n
           /\ nreads' = nreads + 1
           /\ tmp' = buf
           /\ hd' = [hd EXCEPT !.Address.Port = buildPort(buf[1], buf[2]),
                               !.Address.IP = Slice(buf, 3, n)]
           /\ err' = nil
           /\ pc' = "done"
    /\ UNCHANGED <<stream, b, encoded, dial, rendered>>

(* lines 112-119: version 4, the port and the IPv4 address *)
ParseSocks4 ==
    /\ pc = "socks4"
    /\ LET n == headPORTLen + IPv4len
           r == ReadFull(stream, pos, n)
       IN  /\ pos' = pos + r.n
           /\ nreads' = nreads + 1
           /\ tmp' = Buffer(r, n)
           /\ IF r.err # ""
              THEN /\ err' = Errorf("failed to get socks4 header port and ip, %v", 0, r.err)
                   /\ hd' = hd
                   /\ pc' = "failed"
              ELSE /\ hd' = [hd EXCEPT !.Address.Port = buildPort(r.data[1], r.data[2]),
                                       !.Address.IP = Slice(r.data, 3, n)]
                   /\ err' = nil
                   /\ pc' = "done"
    /\ UNCHANGED <<stream, b, encoded, dial, rendered>>

(* ParseRsvAtyp reading the length byte along with RSV and ATYP *)
ParseRsvAtyp_ReadsLen ==
    /\ pc = "socks5"
    /\ LET n == headRSVLen + headATYPLen + 1
           r == ReadFull(stream, pos, n)
           h == [hd EXCEPT !.Reserved = r.data[1], !.addrType = r.data[2]]
       IN  /\ pos' = pos + r.n
           /\ nreads' = nreads + 1
           /\ tmp' = Buffer(r, n)
           /\ IF r.err # ""
              THEN /\ err' = Errorf("failed to get header RSV and address type, %v", 0, r.err)
                   /\ hd' = hd
                   /\ pc' = "failed"
              ELSE /\ hd' = h
                   /\ IF h.addrType = fqdnAddress THEN err' = nil /\ pc' = "fqdnLen"
                      ELSE IF h.addrType = ipv4Address THEN err' = nil /\ pc' = "ipv4"
                      ELSE IF h.addrType = ipv6Address THEN err' = nil /\ pc' = "ipv6"
                      ELSE err' = unrecognizedAddrType /\ pc' = "failed"
    /\ UNCHANGED <<stream, b, encoded, dial, rendered>>

(* lines 120-127 and 153-155: version 5, the reserved byte and the address type *)
ParseRsvAtyp ==
    /\ pc = "socks5"
    /\ LET n == headRSVLen + headATYPLen
           r == ReadFull(stream, pos, n)
           h == [hd EXCEPT !.Reserved = r.data[1], !.addrType = r.data[2]]
       IN  /\ pos' = pos + r.n
           /\ nreads' = nreads + 1
           /\ tmp' = Buffer(r, n)
           /\ IF r.err # ""
              THEN /\ err' = Errorf("failed to get header RSV and address type, %v", 0, r.err)
                   /\ hd' = hd
                   /\ pc' = "failed"
              ELSE /\ hd' = h
                   /\ IF h.addrType = fqdnAddress THEN err' = nil /\ pc' = "fqdnLen"
                      ELSE IF h.addrType = ipv4Address THEN err' = nil /\ pc' = "ipv4"
                      ELSE IF h.addrType = ipv6Address THEN err' = nil /\ pc' = "ipv6"
                      ELSE err' = unrecognizedAddrType /\ pc' = "failed"
    /\ UNCHANGED <<stream, b, encoded, dial, rendered>>

(* lines 129-132: the domain's length byte, read into tmp[:1] *)
ParseFqdnLen ==
    /\ pc = "fqdnLen"
    /\ LET r == ReadFull(stream, pos, 1)
       IN  /\ pos' = pos + r.n
           /\ nreads' = nreads + 1
           /\ tmp' = IF r.n = 1 THEN [tmp EXCEPT ![1] = r.data[1]] ELSE tmp
           /\ IF r.err # ""
              THEN /\ err' = Errorf("failed to get header, %v", 0, r.err)
                   /\ pc' = "failed"
              ELSE /\ err' = nil
                   /\ pc' = "fqdnAddr"
    /\ UNCHANGED <<stream, hd, b, encoded, dial, rendered>>

(* ParseFqdnAddr reading one byte more than the domain and the port *)
ParseFqdnAddr_OverRead ==
    /\ pc = "fqdnAddr"
    /\ LET addrLen == tmp[1]
           r == ReadFull(stream, pos, addrLen + 3)
       IN  /\ pos' = pos + r.n
           /\ nreads' = nreads + 1
           /\ IF r.err # ""
              THEN /\ err' = Errorf("failed to get header, %v", 0, r.err)
                   /\ hd' = hd
                   /\ pc' = "failed"
              ELSE /\ hd' = [hd EXCEPT !.Address.FQDN = Slice(r.data, 1, addrLen),
                                       !.Address.Port = buildPort(r.data[addrLen + 1],
                                                                  r.data[addrLen + 2])]
                   /\ err' = nil
                   /\ pc' = "done"
    /\ UNCHANGED <<stream, tmp, b, encoded, dial, rendered>>

(* lines 132-138: the domain and the port *)
ParseFqdnAddr ==
    /\ pc = "fqdnAddr"
    /\ LET addrLen == tmp[1]
           r == ReadFull(stream, pos, addrLen + 2)
       IN  /\ pos' = pos + r.n
           /\ nreads' = nreads + 1
           /\ IF r.err # ""
              THEN /\ err' = Errorf("failed to get header, %v", 0, r.err)
                   /\ hd' = hd
                   /\ pc' = "failed"
              ELSE /\ hd' = [hd EXCEPT !.Address.FQDN = Slice(r.data, 1, addrLen),
                                       !.Address.Port = buildPort(r.data[addrLen + 1],
                                                                  r.data[addrLen + 2])]
                   /\ err' = nil
                   /\ pc' = "done"
    /\ UNCHANGED <<stream, tmp, b, encoded, dial, rendered>>

(* ParseIPv4 storing the address before it looks at the read's error *)
ParseIPv4_AssignFirst ==
    /\ pc = "ipv4"
    /\ LET n == IPv4len + 2
           r == ReadFull(stream, pos, n)
           addr == Buffer(r, n)
       IN  /\ pos' = pos + r.n
           /\ nreads' = nreads + 1
           /\ IF r.err # ""
              THEN /\ err' = Errorf("failed to get header, %v", 0, r.err)
                   /\ hd' = [hd EXCEPT !.Address.IP = Slice(addr, 1, IPv4len)]
                   /\ pc' = "failed"
              ELSE /\ hd' = [hd EXCEPT !.Address.IP = Slice(addr, 1, IPv4len),
                                       !.Address.Port = buildPort(addr[IPv4len + 1],
                                                                  addr[IPv4len + 2])]
                   /\ err' = nil
                   /\ pc' = "done"
    /\ UNCHANGED <<stream, tmp, b, encoded, dial, rendered>>

(* lines 139-145: the IPv4 address and the port *)
ParseIPv4 ==
    /\ pc = "ipv4"
    /\ LET r == ReadFull(stream, pos, IPv4len + 2)
       IN  /\ pos' = pos + r.n
           /\ nreads' = nreads + 1
           /\ IF r.err # ""
              THEN /\ err' = Errorf("failed to get header, %v", 0, r.err)
                   /\ hd' = hd
                   /\ pc' = "failed"
              ELSE /\ hd' = [hd EXCEPT !.Address.IP = Slice(r.data, 1, IPv4len),
                                       !.Address.Port = buildPort(r.data[IPv4len + 1],
                                                                  r.data[IPv4len + 2])]
                   /\ err' = nil
                   /\ pc' = "done"
    /\ UNCHANGED <<stream, tmp, b, encoded, dial, rendered>>

(* ParseIPv6 keeping only the first IPv4len bytes of the address *)
ParseIPv6_V4Len ==
    /\ pc = "ipv6"
    /\ LET r == ReadFull(stream, pos, IPv6len + 2)
       IN  /\ pos' = pos + r.n
           /\ nreads' = nreads + 1
           /\ IF r.err # ""
              THEN /\ err' = Errorf("failed to get header, %v", 0, r.err)
                   /\ hd' = hd
                   /\ pc' = "failed"
              ELSE /\ hd' = [hd EXCEPT !.Address.IP = Slice(r.data, 1, IPv4len),
                                       !.Address.Port = buildPort(r.data[IPv6len + 1],
                                                                  r.data[IPv6len + 2])]
                   /\ err' = nil
                   /\ pc' = "done"
    /\ UNCHANGED <<stream, tmp, b, encoded, dial, rendered>>

(* lines 146-152: the IPv6 address and the port *)
ParseIPv6 ==
    /\ pc = "ipv6"
    /\ LET r == ReadFull(stream, pos, IPv6len + 2)
       IN  /\ pos' = pos + r.n
           /\ nreads' = nreads + 1
           /\ IF r.err # ""
              THEN /\ err' = Errorf("failed to get header, %v", 0, r.err)
                   /\ hd' = hd
                   /\ pc' = "failed"
              ELSE /\ hd' = [hd EXCEPT !.Address.IP = Slice(r.data, 1, IPv6len),
                                       !.Address.Port = buildPort(r.data[IPv6len + 1],
                                                                  r.data[IPv6len + 2])]
                   /\ err' = nil
                   /\ pc' = "done"
    /\ UNCHANGED <<stream, tmp, b, encoded, dial, rendered>>

Parse ==
    \/ ParseVerCmd
    \/ ParseSocks4
    \/ ParseRsvAtyp
    \/ ParseFqdnLen
    \/ ParseFqdnAddr
    \/ ParseIPv4
    \/ ParseIPv6

(* the caller holds a Header: one Parse returned with no error, or one it built *)
HasHeader == pc \in {"done", "built"}

(* h.Bytes() on the Header the caller holds *)
HeaderBytes ==
    /\ HasHeader
    /\ ~encoded
    /\ b' = Bytes(hd)
    /\ encoded' = TRUE
    /\ UNCHANGED <<stream, pos, pc, hd, err, tmp, nreads, dial, rendered>>

(* h.Address.Address() on the Header the caller holds *)
AddrSpecAddress ==
    /\ HasHeader
    /\ ~rendered
    /\ dial' = Address(hd.Address)
    /\ rendered' = TRUE
    /\ UNCHANGED <<stream, pos, pc, hd, err, tmp, nreads, b, encoded>>

(* ---------------- the streams Parse is run on ---------------- *)
VersionBytes == {0, 4, 5, 6}
CommandBytes == {1, 2, 3, 4}
ThirdBytes == {0, 255}
FourthBytes == {0, 1, 3, 4, 5, 255}
PortBytes == {<<0, 0>>, <<255, 255>>, <<31, 144>>}
DomainChars == {97, 58}
SampleIPs == { Fill(16, 0),
               v4InV6Prefix \o <<127, 0, 0, 1>>,
               <<32, 1, 13, 184, 0, 0, 0, 0, 0, 1, 0, 0, 0, 0, 0, 1>> }
Tails == { Fill(t, 170) : t \in 0..MaxTail }
SmallDomains == UNION { [1..n -> DomainChars] : n \in 0..MaxSmallDomain }

(* what follows the first four bytes: an address and a port, or a length *)
(* byte, a domain and a port, then the payload                            *)
Bodies ==
    { ip \o p \o t : ip \in SampleIPs, p \in PortBytes, t \in Tails }
    \cup { <<Len(d)>> \o d \o p \o t : d \in SmallDomains, p \in PortBytes, t \in Tails }

(* a version 5 header with the longest domain, then the payload *)
LongDomainStreams ==
    { <<socks5Version, c, 0, fqdnAddress, ByteMax>> \o Fill(ByteMax, 97) \o p \o t :
        c \in {ConnectCommand, AssociateCommand}, p \in PortBytes, t \in Tails }

(* every stream is one of these cut at any length: the peer may close early *)
FullStreams ==
    { <<b0, b1, b2, b3>> \o body :
        b0 \in VersionBytes, b1 \in CommandBytes, b2 \in ThirdBytes,
        b3 \in FourthBytes, body \in Bodies }
    \cup LongDomainStreams

Init ==
    /\ \E full \in FullStreams : \E cut \in 0..Len(full) : stream = Slice(full, 1, cut)
    /\ pos = 0
    /\ pc = "start"
    /\ hd = ZeroHeader
    /\ err = nil
    /\ tmp = <<>>
    /\ nreads = 0
    /\ b = <<>>
    /\ encoded = FALSE
    /\ dial = <<>>
    /\ rendered = FALSE

Next == Parse \/ HeaderBytes \/ AddrSpecAddress

Spec == Init /\ [][Next]_vars

(* ---------------- Headers a caller builds itself ---------------- *)
CallerHeaders ==
    [ Version  : {0, socks4Version, socks5Version, 6},
      Command  : {ConnectCommand, BindCommand},
      Reserved : {0, 9},
      Address  : [ FQDN : {<<>>, <<97>>},
                   IP   : {<<>>, <<127, 0, 0, 1>>} \cup SampleIPs,
                   Port : {0, 8080, 65535, 70000, -1} ],
      addrType : {0, ipv4Address, 2, fqdnAddress, ipv6Address, 5} ]

InitBytes ==
    /\ hd \in CallerHeaders
    /\ pc = "built"
    /\ stream = <<>>
    /\ pos = 0
    /\ err = nil
    /\ tmp = <<>>
    /\ nreads = 0
    /\ b = <<>>
    /\ encoded = FALSE
    /\ dial = <<>>
    /\ rendered = FALSE

NextBytes == HeaderBytes \/ AddrSpecAddress

SpecBytes == InitBytes /\ [][NextBytes]_vars

(* ---------------- what a caller can tell from a returned error -------- *)
Truncated(e) == e.cause \in {EOF, ErrUnexpectedEOF}

Kind(e) ==
    IF e = nil THEN "none"
    ELSE IF Truncated(e) THEN "TruncatedInput"
    ELSE IF e.fmt = "unrecognized SOCKS version[%d]" THEN "UnsupportedVersion"
    ELSE IF e.fmt = "unrecognized command[%d]" THEN "UnsupportedCommand"
    ELSE IF e.fmt = "wrong version for command" THEN "IncompatibleVersionCommand"
    ELSE IF e = unrecognizedAddrType THEN "UnsupportedAddressType"
    ELSE "other"

Returned == pc \in {"done", "failed"}

(* the length of the header that the leading bytes of s announce *)
HeaderLen(s) ==
    IF s[1] = 4 THEN 8
    ELSE IF s[4] = 1 THEN 10
    ELSE IF s[4] = 4 THEN 22
    ELSE 7 + s[5]

(* C1: a header that Parse accepted is written back by Bytes as exactly the *)
(* bytes Parse consumed, so a stream holding exactly B gives back B         *)
C1_RoundTrip ==
    (pc = "done" /\ encoded) =>
        /\ b = Slice(stream, 1, pos)
        /\ (pos = Len(stream) => b = stream)

C1_Witness ==
    /\ pc = "done" /\ encoded /\ pos = Len(stream)
    /\ hd.Version = 5 /\ hd.addrType = 3
    /\ Len(hd.Address.FQDN) = 255 /\ hd.Address.Port = 65535

(* C2: a successful Parse has consumed exactly the header: 8 bytes for     *)
(* version 4, 10 for IPv4, 22 for IPv6, 7+N for a domain of length byte N  *)
C2_ConsumesExactlyHeader ==
    pc = "done" => (pos = HeaderLen(stream) /\ pos <= Len(stream))

C2_Witness ==
    /\ pc = "done" /\ Len(stream) > pos
    /\ hd.Version = 5 /\ hd.addrType = 3 /\ pos = 9

(* the outcome the four checks give, in their order, on the leading bytes *)
ExpectedKind(s) ==
    IF s[1] \notin {4, 5} THEN "UnsupportedVersion"
    ELSE IF s[2] \notin {1, 2, 3} THEN "UnsupportedCommand"
    ELSE IF s[1] = 4 /\ s[2] = 3 THEN "IncompatibleVersionCommand"
    ELSE IF s[1] = 5 /\ s[4] \notin {1, 3, 4} THEN "UnsupportedAddressType"
    ELSE "none"

(* C3: when no read comes up short the error returned is that of the first *)
(* failing check (version, command, version with command, address type),   *)
(* the error value alone tells which, and otherwise Parse succeeds         *)
C3_FirstFailingCheck ==
    (Returned /\ ~Truncated(err)) =>
        /\ Kind(err) = ExpectedKind(stream)
        /\ (pc = "done") = (ExpectedKind(stream) = "none")
        /\ (pc = "done") = (err = nil)

C3_Witness ==
    /\ pc = "failed"
    /\ Kind(err) = "UnsupportedAddressType"
    /\ stream[2] = 3

(* s is a proper prefix of some sequence that Parse accepts *)
ProperPrefixOfAccepted(s) ==
    /\ Len(s) >= 1 => s[1] \in {4, 5}
    /\ Len(s) >= 2 => (s[2] \in {1, 2, 3} /\ ~(s[1] = 4 /\ s[2] = 3))
    /\ (Len(s) >= 1 /\ s[1] = 4) => Len(s) < 8
    /\ (Len(s) >= 4 /\ s[1] = 5) =>
          /\ s[4] \in {1, 3, 4}
          /\ s[4] = 1 => Len(s) < 10
          /\ s[4] = 4 => Len(s) < 22
          /\ (s[4] = 3 /\ Len(s) >= 5) => Len(s) < 7 + s[5]

(* C4: on a stream that ends inside an acceptable header Parse fails with  *)
(* a short-read error, which the caller can tell from the four others      *)
C4_TruncatedInput ==
    (Returned /\ ProperPrefixOfAccepted(stream)) =>
        /\ pc = "failed"
        /\ Kind(err) = "TruncatedInput"
        /\ err.fmt \notin {"unrecognized SOCKS version[%d]", "unrecognized command[%d]",
                           "wrong version for command", unrecognizedAddrType.fmt}

C4_Witness ==
    /\ pc = "failed" /\ Kind(err) = "TruncatedInput"
    /\ Len(stream) = 261 /\ stream[4] = 3 /\ stream[5] = 255

(* C5 as claimed: a Header returned with an error carries no decoded field *)
C5_AllOrNothing == pc = "failed" => hd = ZeroHeader

(* what Parse has decoded into the Header when it fails on stream s *)
FirstReadDone(s) == Len(s) >= 2
SecondReadDone(s) == Len(s) >= 4 /\ s[1] = 5 /\ s[2] \in {1, 2, 3}

(* C5 amended: a Header returned with an error has an empty AddrSpec, and  *)
(* holds the version and command bytes once they are read and, for version *)
(* 5, the reserved and address-type bytes once they are read               *)
C5_PartialHeaderOnError ==
    pc = "failed" =>
        hd = [Version  |-> IF FirstReadDone(stream) THEN stream[1] ELSE 0,
              Command  |-> IF FirstReadDone(stream) THEN stream[2] ELSE 0,
              Reserved |-> IF SecondReadDone(stream) THEN stream[3] ELSE 0,
              addrType |-> IF SecondReadDone(stream) THEN stream[4] ELSE 0,
              Address  |-> ZeroAddrSpec]

C5_Witness ==
    /\ pc = "failed" /\ Kind(err) = "TruncatedInput"
    /\ hd.Version = 5 /\ hd.Reserved = 255 /\ hd.addrType = 3 /\ pos >= 5

HasFQDN(a) == a.FQDN # <<>>
HasIP(a) == Len(a.IP) # 0

(* C6 as claimed: exactly one of FQDN and IP is populated, port in range *)
C6_ExactlyOne ==
    pc = "done" =>
        /\ HasFQDN(hd.Address) # HasIP(hd.Address)
        /\ hd.Address.Port \in 0..65535

(* C6 amended: never both; the IP is populated exactly for version 4 and   *)
(* for address types IPv4 and IPv6, the FQDN exactly for a domain with     *)
(* length byte 1..255, and for length byte 0 neither is; port in 0..65535  *)
C6_AtMostOne ==
    pc = "done" =>
        LET isDomain == stream[1] = 5 /\ stream[4] = 3
        IN  /\ ~(HasFQDN(hd.Address) /\ HasIP(hd.Address))
            /\ HasIP(hd.Address) = ~isDomain
            /\ HasFQDN(hd.Address) = (isDomain /\ stream[5] >= 1)
            /\ hd.Address.Port \in 0..65535

C6_Witness ==
    /\ pc = "done" /\ hd.Version = 5 /\ hd.addrType = 3
    /\ ~HasFQDN(hd.Address) /\ ~HasIP(hd.Address)
    /\ hd.Address.Port = 65535

(* the dial string that the bytes of an accepted header call for *)
ExpectedDial(s) ==
    LET n == HeaderLen(s)
        port == IF s[1] = 4 THEN 256 * s[3] + s[4] ELSE 256 * s[n - 1] + s[n]
        host == IF s[1] = 4 \/ s[4] = 1 THEN Dotted(Slice(s, 5, 8))
                ELSE IF s[4] = 4 THEN IPString(Slice(s, 5, 20))
                ELSE Slice(s, 6, 5 + s[5])
    IN  JoinHostPort(host, Itoa(port))

(* C7: Address() on an accepted header is a non-empty host:port string,    *)
(* the IP's text and the port, or the domain and the port                  *)
C7_DialString ==
    (pc = "done" /\ rendered) =>
        /\ Len(dial) > 0
        /\ dial = ExpectedDial(stream)

C7_Witness ==
    /\ pc = "done" /\ rendered
    /\ hd.addrType = 4 /\ dial[1] = 91 /\ hd.Address.Port = 8080

(* the reads Parse has issued when a read comes up short on stream s *)
ReadsUntilShort(s) ==
    IF Len(s) < 2 THEN 1
    ELSE IF s[1] = 4 \/ Len(s) < 4 THEN 2
    ELSE IF s[4] # 3 \/ Len(s) < 5 THEN 3
    ELSE 4

C8_Aborted ==
    pc = "failed" =>
        IF Truncated(err)
        THEN pos = Len(stream) /\ nreads = ReadsUntilShort(stream)
        ELSE IF ExpectedKind(stream) = "UnsupportedAddressType"
        THEN pos = 4 /\ nreads = 2
        ELSE pos = 2 /\ nreads = 1

(* C8: a failure ends the parse: no read follows it, a rejected version,   *)
(* command or pair leaves 2 bytes consumed, a rejected address type 4      *)
C8_FailureAborts ==
    /\ []C8_Aborted
    /\ [][pc = "failed" => (pc' = "failed" /\ pos' = pos /\ nreads' = nreads)]_vars

C8_Witness ==
    /\ pc = "failed" /\ ~Truncated(err)
    /\ Len(stream) > 4
    /\ stream[1] = 5 /\ stream[4] = 255 /\ pos = 4

(* C9 as claimed: for both versions the tag is 1, 3 or 4 and agrees with   *)
(* the populated variant                                                   *)
C9_TagAgrees ==
    pc = "done" =>
        /\ hd.addrType \in {1, 3, 4}
        /\ hd.addrType = 1 => (Len(hd.Address.IP) = 4 /\ ~HasFQDN(hd.Address))
        /\ hd.addrType = 4 => (Len(hd.Address.IP) = 16 /\ ~HasFQDN(hd.Address))
        /\ hd.addrType = 3 =>
              (~HasIP(hd.Address) /\ hd.Address.FQDN = Slice(stream, 6, 5 + stream[5]))

(* C9 amended: for version 5 the tag is 1, 3 or 4 and agrees with the      *)
(* populated variant; for version 4 the tag is left 0, with a 4-byte IP    *)
C9_TagAgreesV5 ==
    pc = "done" =>
        /\ hd.Version = 5 =>
              /\ hd.addrType \in {1, 3, 4}
              /\ hd.addrType = stream[4]
              /\ hd.addrType = 1 => (Len(hd.Address.IP) = 4 /\ ~HasFQDN(hd.Address))
              /\ hd.addrType = 4 => (Len(hd.Address.IP) = 16 /\ ~HasFQDN(hd.Address))
              /\ hd.addrType = 3 =>
                    /\ ~HasIP(hd.Address)
                    /\ hd.Address.FQDN = Slice(stream, 6, 5 + stream[5])
        /\ hd.Version = 4 =>
              (hd.addrType = 0 /\ Len(hd.Address.IP) = 4 /\ ~HasFQDN(hd.Address))
        /\ hd.Version \in {4, 5}

C9_Witness ==
    /\ pc = "done" /\ hd.Version = 4 /\ hd.addrType = 0
    /\ hd.Address.IP = <<32, 1, 13, 184>>

(* C10: Bytes() on any Header gives bytes; for version 5 with a tag other  *)
(* than 1, 3, 4 exactly version, command, reserved, tag and the two port   *)
(* bytes, whatever FQDN and IP hold; for a version other than 4 and 5      *)
(* exactly version, command                                                *)
C10_BytesOutsideDecoder ==
    (pc = "built" /\ encoded) =>
        /\ \A i \in 1..Len(b) : b[i] \in Byte
        /\ (hd.Version = 5 /\ hd.addrType \notin {1, 3, 4}) =>
              b = <<hd.Version, hd.Command, hd.Reserved, hd.addrType,
                    (hd.Address.Port \div 256) % 256, hd.Address.Port % 256>>
        /\ hd.Version \notin {4, 5} => b = <<hd.Version, hd.Command>>

C10_Witness ==
    /\ pc = "built" /\ encoded
    /\ hd.Version = 5 /\ hd.addrType = 0
    /\ HasFQDN(hd.Address) /\ Len(hd.Address.IP) = 16
    /\ Len(b) = 6

====
